---- MODULE Spec2Model ----
(***************************************************************************)
(* QuestionCard (src/components/QuestionCard.tsx): one quiz question with  *)
(* its answer handlers, hint generation and answer evaluation.             *)
(*                                                                         *)
(* A string is a sequence of one-character strings, so that trimming,      *)
(* whitespace collapsing, case folding, split and join are computed        *)
(* character by character as the JavaScript built-ins compute them.        *)
(***************************************************************************)
EXTENDS Integers, Sequences, FiniteSets, TLC

(* ------------------------------ bounds --------------------------------- *)
\* longest generated correctAnswer / userAnswer of the evaluation inputs
MaxStrLen == 2
\* longest generated options list of a MULTIPLE_CHOICE evaluation input
MaxOptions == 2
\* longest generated correctAnswer of the REARRANGE hint inputs
MaxAnswerLen == 7
\* cap of the counter of hint generations per question instance
MaxHintRuns == 3
\* cap of the counter of onAnswer calls per question instance
MaxAnswers == 3

(* --------------------------- string helpers ---------------------------- *)
Range(s) == {s[i] : i \in 1..Len(s)}

\* all sequences over S of length at most n
RECURSIVE SeqUpTo(_, _)
SeqUpTo(S, n) ==
  IF n = 0 THEN {<<>>}
  ELSE LET shorter == SeqUpTo(S, n - 1)
       IN  shorter \cup {Append(s, c) : s \in {t \in shorter : Len(t) = n - 1}, c \in S}

\* /\s/ : the whitespace characters of the model's alphabet
IsSpace(c) == c \in {" ", "\t"}

\* one character of String.prototype.toLowerCase
LowerChar(c) ==
  CASE c = "A" -> "a" [] c = "B" -> "b" [] c = "I" -> "i" [] OTHER -> c

\* one character of String.prototype.toUpperCase
UpperChar(c) ==
  CASE c = "a" -> "A" [] c = "b" -> "B" [] c = "i" -> "I" [] OTHER -> c

toLowerCase(s) == [i \in 1..Len(s) |-> LowerChar(s[i])]

toUpperCase(s) == [i \in 1..Len(s) |-> UpperChar(s[i])]

RECURSIVE trimStart(_)
trimStart(s) ==
  IF s = <<>> THEN <<>>
  ELSE IF IsSpace(Head(s)) THEN trimStart(Tail(s)) ELSE s

RECURSIVE trimEnd(_)
trimEnd(s) ==
  IF s = <<>> THEN <<>>
  ELSE IF IsSpace(s[Len(s)]) THEN trimEnd(SubSeq(s, 1, Len(s) - 1)) ELSE s

\* String.prototype.trim
trim(s) == trimEnd(trimStart(s))

\* s.replace(/\s+/g, ' ') : every maximal whitespace run becomes one space
RECURSIVE collapseWhitespace(_)
collapseWhitespace(s) ==
  IF s = <<>> THEN <<>>
  ELSE IF IsSpace(Head(s))
       THEN <<" ">> \o collapseWhitespace(trimStart(s))
       ELSE <<Head(s)>> \o collapseWhitespace(Tail(s))

\* s.split(' ') : the pieces between single space characters (never empty list)
RECURSIVE split(_)
split(s) ==
  IF \E i \in 1..Len(s) : s[i] = " "
  THEN LET i == CHOOSE k \in 1..Len(s) :
                  s[k] = " " /\ \A j \in 1..(k - 1) : s[j] # " "
       IN  <<SubSeq(s, 1, i - 1)>> \o split(SubSeq(s, i + 1, Len(s)))
  ELSE <<s>>

\* parts.join(' ')
RECURSIVE join(_)
join(parts) ==
  IF parts = <<>> THEN <<>>
  ELSE IF Len(parts) = 1 THEN parts[1]
       ELSE parts[1] \o <<" ">> \o join(Tail(parts))

\* Array.prototype.includes
includes(arr, x) == \E i \in 1..Len(arr) : arr[i] = x

\* arr.filter(p => p !== x)
RECURSIVE filterNotEqual(_, _)
filterNotEqual(arr, x) ==
  IF arr = <<>> THEN <<>>
  ELSE IF Head(arr) # x
       THEN <<Head(arr)>> \o filterNotEqual(Tail(arr), x)
       ELSE filterNotEqual(Tail(arr), x)

Min(a, b) == IF a < b THEN a ELSE b
Max(a, b) == IF a > b THEN a ELSE b

\* userAnswer: string | null  -- the null prop value
Null == <<"null">>

\* QuestionType, plus one tag outside the enum
MULTIPLE_CHOICE == "MULTIPLE_CHOICE"
FILL_IN_BLANK == "FILL_IN_BLANK"
REARRANGE == "REARRANGE"
UNKNOWN_TYPE == "UNKNOWN_TYPE"
QuestionTypes == {MULTIPLE_CHOICE, FILL_IN_BLANK, REARRANGE, UNKNOWN_TYPE}

(* ------------------------------ questions ------------------------------ *)
\* A Question of '../types': the fields the component's logic reads.
\* An absent options / rearrangeParts array is the empty sequence, which is
\* what `question.options?.filter(...) || []` and `?.map` make of it.
Question(id, type, correctAnswer, options, rearrangeParts) ==
  [id |-> id, type |-> type, correctAnswer |-> correctAnswer,
   options |-> options, rearrangeParts |-> rearrangeParts]

sLove == <<"l", "o", "v", "e">>
sCats == <<"c", "a", "t", "s">>
sILoveCats == <<"I", " ">> \o sLove \o <<" ">> \o sCats

\* The questions shown by the lifecycle specification, one per shape the
\* handlers distinguish.
QuestionBank ==
  { Question(1, MULTIPLE_CHOICE, <<"A", "b">>,
             << <<"b">>, <<"A", "b">>, <<"a", "b">> >>, <<>>),
    Question(2, MULTIPLE_CHOICE, <<"a">>, << <<"a">> >>, <<>>),
    Question(3, FILL_IN_BLANK, <<" ", "A", "b", " ">>, <<>>, <<>>),
    Question(4, REARRANGE, sILoveCats, <<>>, <<sLove, <<"I">>, sCats>>),
    Question(5, REARRANGE, <<"a", " ", "b", " ", "a">>, <<>>,
             << <<"a">>, <<"b">>, <<"a">> >>),
    Question(6, REARRANGE, <<"a", " ", "b">>, <<>>,
             << <<"a", " ">>, <<"\t", "b">> >>),
    Question(7, REARRANGE, <<>>, <<>>, << <<>> >>),
    Question(8, UNKNOWN_TYPE, <<"a">>, <<>>, <<>>),
    Question(9, FILL_IN_BLANK, <<"A", "b">>, <<>>, <<>>) }

\* what the learner can type into the FILL_IN_BLANK input
TypedTexts ==
  { <<>>, <<" ">>, <<"a", "b">>, <<" ", "A", "b", " ">>, <<" ", "b">> }

\* alphabets of the generated inputs
EvalChars == {"a", "A", " "}
HintChars == {"a", "b", " "}
OptionTexts == { <<>>, <<"a">>, <<"A">>, <<"a", "a">> }

EvalStrings == SeqUpTo(EvalChars, MaxStrLen)

\* questions of every type whose evaluation is checked
EvalQuestions ==
  { Question(0, t, ca, <<>>, <<>>) :
      t \in QuestionTypes \ {MULTIPLE_CHOICE}, ca \in EvalStrings }
  \cup
  { Question(0, MULTIPLE_CHOICE, ca, opts, <<>>) :
      ca \in EvalStrings, opts \in SeqUpTo(OptionTexts, MaxOptions) }

\* REARRANGE questions whose hint is checked
HintQuestions ==
  { Question(0, REARRANGE, ca, <<>>, <<>>) : ca \in SeqUpTo(HintChars, MaxAnswerLen) }

(* -------------------------------- state -------------------------------- *)
VARIABLES
  question,       \* prop: the question shown
  isAnswered,     \* prop: the parent's lock
  userAnswer,     \* prop: the submitted answer, or Null
  inputVal,       \* useState('')
  selectedParts,  \* useState<string[]>([])
  showHint,       \* useState(false)
  hintText,       \* useState('')
  verdict,        \* what the latest render's isCorrect() call returned
  lastOp,         \* the handler that ran last
  calledLocked,   \* whether that handler found isAnswered true
  prev,           \* what the question shown before this one had left in the state
  tapped,         \* the last handlePartClick call: its argument and the selection it found
  answerCount,    \* onAnswer calls for this question instance
  genRuns,        \* executions of generateHint's switch for this instance
  draws           \* Math.random() calls for this question instance

vars == <<question, isAnswered, userAnswer, inputVal, selectedParts, showHint,
          hintText, verdict, lastOp, calledLocked, prev, tapped, answerCount,
          genRuns, draws>>

\* no handlePartClick call since the last other step
NoTap == [part |-> Null, before |-> <<>>]

(* --------------------------- answer evaluation ------------------------- *)
\* isCorrect comparing every type as written, without case folding
isCorrect_caseSensitive(q, ua) ==
  IF ua = Null \/ ua = <<>> THEN FALSE
  ELSE IF q.type = REARRANGE
       THEN trim(collapseWhitespace(ua)) = trim(collapseWhitespace(q.correctAnswer))
       ELSE ua = q.correctAnswer

\* isCorrect trimming both strings without collapsing the inner whitespace runs
isCorrect_noCollapse(q, ua) ==
  IF ua = Null \/ ua = <<>> THEN FALSE
  ELSE IF q.type = REARRANGE
       THEN trim(ua) = trim(q.correctAnswer)
       ELSE toLowerCase(ua) = toLowerCase(q.correctAnswer)

\* isCorrect testing userAnswer against null only, not against ''
isCorrect_nullOnly(q, ua) ==
  IF ua = Null THEN FALSE
  ELSE IF q.type = REARRANGE
       THEN trim(collapseWhitespace(ua)) = trim(collapseWhitespace(q.correctAnswer))
       ELSE toLowerCase(ua) = toLowerCase(q.correctAnswer)

\* isCorrect(), with the props it closes over as parameters
isCorrect(q, ua) ==
  IF ua = Null \/ ua = <<>> THEN FALSE
  ELSE IF q.type = REARRANGE
       THEN trim(collapseWhitespace(ua)) = trim(collapseWhitespace(q.correctAnswer))
       ELSE toLowerCase(ua) = toLowerCase(q.correctAnswer)

\* the feedback section: rendered, and isCorrect() called, only when isAnswered
FeedbackOf(q, answered, ua) ==
  IF answered THEN (IF isCorrect(q, ua) THEN "correct" ELSE "incorrect")
  ELSE "none"

\* the re-render that follows every change of props or state
render == verdict' = FeedbackOf(question', isAnswered', userAnswer')

(* ---------------------------- hint generation -------------------------- *)
\* question.options?.filter(opt => opt !== question.correctAnswer) || []
wrongOptions(q) == filterNotEqual(q.options, q.correctAnswer)

\* the values Math.floor(Math.random() * wrongOptions.length) can take
RandomIndexes(q) ==
  IF q.type = MULTIPLE_CHOICE /\ Len(wrongOptions(q)) > 0
  THEN 0..(Len(wrongOptions(q)) - 1)
  ELSE {0}

\* whether generating the hint of q calls Math.random()
DrawsRandom(q) == q.type = MULTIPLE_CHOICE /\ Len(wrongOptions(q)) > 0

\* the reveal count with Math.ceil in place of Math.floor
revealCount_roundsUp(words) == Max(1, Min(2, (Len(words) + 1) \div 2))

\* Math.max(1, Math.min(2, Math.floor(words.length / 2)))
revealCount(words) == Max(1, Min(2, Len(words) \div 2))

\* words.slice(0, revealCount).join(' ')
hintPhrase(correctAnswer) ==
  LET words == split(correctAnswer)
  IN  join(SubSeq(words, 1, Min(revealCount(words), Len(words))))

\* the fixed pieces of the three message templates
McHintOpen == "Eliminate the option: \""
McHintClose == "\". It is not the correct answer."
FibHintOpen == "This word has "
FibHintMiddle == " letters. It starts with \""
FibHintClose == "...\"."
RearrangeHintOpen == "The sentence starts with: \""
RearrangeHintClose == "...\""

\* the switch of generateHint: the text of q's hint under random index r
hintTextFor(q, r) ==
  CASE q.type = MULTIPLE_CHOICE ->
         IF Len(wrongOptions(q)) > 0
         THEN <<McHintOpen>> \o wrongOptions(q)[r + 1] \o <<McHintClose>>
         ELSE <<>>
    [] q.type = FILL_IN_BLANK ->
         LET answer == trim(q.correctAnswer)
             firstChar == IF answer = <<>> THEN <<>> ELSE <<answer[1]>>
         IN  <<FibHintOpen, ToString(Len(answer)), FibHintMiddle>>
               \o toUpperCase(firstChar) \o <<FibHintClose>>
    [] q.type = REARRANGE ->
         <<RearrangeHintOpen>> \o hintPhrase(q.correctAnswer) \o <<RearrangeHintClose>>
    [] OTHER -> <<>>

\* generateHint(): returns early when hintText is truthy, else runs the switch
generateHint ==
  IF hintText # <<>>
  THEN UNCHANGED <<hintText, genRuns, draws>>
  ELSE /\ genRuns < MaxHintRuns
       /\ \E r \in RandomIndexes(question) : hintText' = hintTextFor(question, r)
       /\ genRuns' = genRuns + 1
       /\ draws' = draws + (IF DrawsRandom(question) THEN 1 ELSE 0)

\* toggleHint(): the hint button exists only while the question is unanswered
toggleHint ==
  /\ lastOp # "unmounted"
  /\ ~isAnswered
  /\ IF ~showHint THEN generateHint ELSE UNCHANGED <<hintText, genRuns, draws>>
  /\ showHint' = ~showHint
  /\ lastOp' = "toggleHint"
  /\ calledLocked' = isAnswered
  /\ UNCHANGED prev
  /\ tapped' = NoTap
  /\ UNCHANGED <<question, isAnswered, userAnswer, inputVal, selectedParts, answerCount>>
  /\ render

(* ------------------------------- the parent ---------------------------- *)
\* onAnswer(answer): the parent records the answer and locks the question
onAnswer(answer) ==
  /\ answerCount < MaxAnswers
  /\ isAnswered' = TRUE
  /\ userAnswer' = answer
  /\ answerCount' = answerCount + 1

\* the parent shows another question: new question prop, answer state emptied
parentShowsQuestion(q) ==
  /\ q.id # question.id
  /\ question' = q
  /\ isAnswered' = FALSE
  /\ userAnswer' = Null

(* ------------------------------ the handlers --------------------------- *)
\* the effect with its last line forgotten: the cached hint survives
useEffectQuestionId_keepsHint ==
  /\ inputVal' = <<>>
  /\ selectedParts' = <<>>
  /\ showHint' = FALSE
  /\ hintText' = hintText

\* useEffect(..., [question.id])
useEffectQuestionId ==
  /\ inputVal' = <<>>
  /\ selectedParts' = <<>>
  /\ showHint' = FALSE
  /\ hintText' = <<>>

\* the per-question props and state that differ from their initial values
LeftBehind ==
  [answered |-> isAnswered, submitted |-> userAnswer # Null,
   typed |-> inputVal # <<>>, selected |-> selectedParts # <<>>,
   hintShown |-> showHint, hintCached |-> hintText # <<>>]

NothingLeft ==
  [answered |-> FALSE, submitted |-> FALSE, typed |-> FALSE, selected |-> FALSE,
   hintShown |-> FALSE, hintCached |-> FALSE]

\* a re-render with a new question.id, and the effect it triggers
changeQuestion(q) ==
  /\ lastOp # "unmounted"
  /\ parentShowsQuestion(q)
  /\ useEffectQuestionId
  /\ answerCount' = 0
  /\ genRuns' = 0
  /\ draws' = 0
  /\ lastOp' = "changeQuestion"
  /\ calledLocked' = FALSE
  /\ prev' = LeftBehind
  /\ tapped' = NoTap
  /\ render

\* handleMCSelect without its isAnswered test
handleMCSelect_unguarded(option) ==
  /\ lastOp # "unmounted"
  /\ question.type = MULTIPLE_CHOICE
  /\ option \in Range(question.options)
  /\ onAnswer(option)
  /\ lastOp' = "handleMCSelect"
  /\ calledLocked' = isAnswered
  /\ UNCHANGED prev
  /\ tapped' = NoTap
  /\ UNCHANGED <<question, inputVal, selectedParts, showHint, hintText, genRuns, draws>>
  /\ render

\* handleMCSelect(option), bound to the option buttons
handleMCSelect(option) ==
  /\ lastOp # "unmounted"
  /\ question.type = MULTIPLE_CHOICE
  /\ option \in Range(question.options)
  /\ IF ~isAnswered
     THEN onAnswer(option)
     ELSE UNCHANGED <<isAnswered, userAnswer, answerCount>>
  /\ lastOp' = "handleMCSelect"
  /\ calledLocked' = isAnswered
  /\ UNCHANGED prev
  /\ tapped' = NoTap
  /\ UNCHANGED <<question, inputVal, selectedParts, showHint, hintText, genRuns, draws>>
  /\ render

\* onChange of the text input (disabled once answered): setInputVal(e.target.value)
handleInputChange(value) ==
  /\ lastOp # "unmounted"
  /\ question.type = FILL_IN_BLANK
  /\ ~isAnswered
  /\ inputVal' = value
  /\ lastOp' = "handleInputChange"
  /\ calledLocked' = isAnswered
  /\ UNCHANGED prev
  /\ tapped' = NoTap
  /\ UNCHANGED <<question, isAnswered, userAnswer, selectedParts, showHint, hintText,
                 answerCount, genRuns, draws>>
  /\ render

\* handleInputSubmit passing the typed text on as it is
handleInputSubmit_untrimmed ==
  /\ lastOp # "unmounted"
  /\ question.type = FILL_IN_BLANK
  /\ IF ~isAnswered /\ trim(inputVal) # <<>>
     THEN onAnswer(inputVal)
     ELSE UNCHANGED <<isAnswered, userAnswer, answerCount>>
  /\ lastOp' = "handleInputSubmit"
  /\ calledLocked' = isAnswered
  /\ UNCHANGED prev
  /\ tapped' = NoTap
  /\ UNCHANGED <<question, inputVal, selectedParts, showHint, hintText, genRuns, draws>>
  /\ render

\* handleInputSubmit(e), bound to the form
handleInputSubmit ==
  /\ lastOp # "unmounted"
  /\ question.type = FILL_IN_BLANK
  /\ IF ~isAnswered /\ trim(inputVal) # <<>>
     THEN onAnswer(trim(inputVal))
     ELSE UNCHANGED <<isAnswered, userAnswer, answerCount>>
  /\ lastOp' = "handleInputSubmit"
  /\ calledLocked' = isAnswered
  /\ UNCHANGED prev
  /\ tapped' = NoTap
  /\ UNCHANGED <<question, inputVal, selectedParts, showHint, hintText, genRuns, draws>>
  /\ render

\* handlePartClick without the includes test: every tap appends
handlePartClick_alwaysAppends(part) ==
  /\ lastOp # "unmounted"
  /\ question.type = REARRANGE
  /\ part \in Range(question.rearrangeParts) \cup Range(selectedParts)
  /\ IF isAnswered
     THEN UNCHANGED selectedParts
     ELSE selectedParts' = Append(selectedParts, part)
  /\ lastOp' = "handlePartClick"
  /\ calledLocked' = isAnswered
  /\ UNCHANGED prev
  /\ tapped' = [part |-> part, before |-> selectedParts]
  /\ UNCHANGED <<question, isAnswered, userAnswer, inputVal, showHint, hintText,
                 answerCount, genRuns, draws>>
  /\ render

\* handlePartClick putting a newly tapped fragment first instead of last
handlePartClick_prepends(part) ==
  /\ lastOp # "unmounted"
  /\ question.type = REARRANGE
  /\ part \in Range(question.rearrangeParts) \cup Range(selectedParts)
  /\ IF isAnswered
     THEN UNCHANGED selectedParts
     ELSE IF includes(selectedParts, part)
          THEN selectedParts' = filterNotEqual(selectedParts, part)
          ELSE selectedParts' = <<part>> \o selectedParts
  /\ lastOp' = "handlePartClick"
  /\ calledLocked' = isAnswered
  /\ UNCHANGED prev
  /\ tapped' = [part |-> part, before |-> selectedParts]
  /\ UNCHANGED <<question, isAnswered, userAnswer, inputVal, showHint, hintText,
                 answerCount, genRuns, draws>>
  /\ render

\* handlePartClick(part), bound to the pool buttons and to the selection buttons
handlePartClick(part) ==
  /\ lastOp # "unmounted"
  /\ question.type = REARRANGE
  /\ part \in Range(question.rearrangeParts) \cup Range(selectedParts)
  /\ IF isAnswered
     THEN UNCHANGED selectedParts
     ELSE IF includes(selectedParts, part)
          THEN selectedParts' = filterNotEqual(selectedParts, part)
          ELSE selectedParts' = Append(selectedParts, part)
  /\ lastOp' = "handlePartClick"
  /\ calledLocked' = isAnswered
  /\ UNCHANGED prev
  /\ tapped' = [part |-> part, before |-> selectedParts]
  /\ UNCHANGED <<question, isAnswered, userAnswer, inputVal, showHint, hintText,
                 answerCount, genRuns, draws>>
  /\ render

\* handleRearrangeSubmit(), bound to the confirm button
handleRearrangeSubmit ==
  /\ lastOp # "unmounted"
  /\ question.type = REARRANGE
  /\ IF ~isAnswered /\ Len(selectedParts) > 0
     THEN onAnswer(join(selectedParts))
     ELSE UNCHANGED <<isAnswered, userAnswer, answerCount>>
  /\ lastOp' = "handleRearrangeSubmit"
  /\ calledLocked' = isAnswered
  /\ UNCHANGED prev
  /\ tapped' = NoTap
  /\ UNCHANGED <<question, inputVal, selectedParts, showHint, hintText, genRuns, draws>>
  /\ render

\* the first render of a component given its props
mount ==
  /\ lastOp = "unmounted"
  /\ lastOp' = "mount"
  /\ verdict' = FeedbackOf(question, isAnswered, userAnswer)
  /\ UNCHANGED <<question, isAnswered, userAnswer, inputVal, selectedParts, showHint,
                 hintText, calledLocked, prev, tapped, answerCount, genRuns, draws>>

(* ---------------------------- specifications --------------------------- *)
\* the useState initial values
InitialState ==
  /\ inputVal = <<>>
  /\ selectedParts = <<>>
  /\ showHint = FALSE
  /\ hintText = <<>>
  /\ answerCount = 0
  /\ genRuns = 0
  /\ draws = 0
  /\ calledLocked = FALSE
  /\ prev = NothingLeft
  /\ tapped = NoTap

\* a question of the bank, just mounted and unanswered
Init ==
  /\ question \in QuestionBank
  /\ isAnswered = FALSE
  /\ userAnswer = Null
  /\ InitialState
  /\ verdict = "none"
  /\ lastOp = "mount"

Next ==
  \/ \E option \in Range(question.options) : handleMCSelect(option)
  \/ \E value \in TypedTexts : handleInputChange(value)
  \/ handleInputSubmit
  \/ \E part \in Range(question.rearrangeParts) : handlePartClick(part)
  \/ handleRearrangeSubmit
  \/ toggleHint
  \/ \E q \in QuestionBank : changeQuestion(q)

Spec == Init /\ [][Next]_vars

\* the component about to be mounted with any props: a generated question,
\* answered with any generated answer (or none), or not yet answered
PropsInit ==
  /\ \/ /\ question \in EvalQuestions
        /\ isAnswered \in BOOLEAN
        /\ userAnswer \in (IF isAnswered THEN EvalStrings \cup {Null} ELSE {Null})
     \/ /\ question \in HintQuestions
        /\ isAnswered = FALSE
        /\ userAnswer = Null
  /\ InitialState
  /\ verdict = "none"
  /\ lastOp = "unmounted"

PropsNext ==
  \/ mount
  \/ toggleHint

PropsSpec == PropsInit /\ [][PropsNext]_vars

(* ------------------------- submission and reset ------------------------ *)
SubmitHandlers == {"handleMCSelect", "handleInputSubmit", "handleRearrangeSubmit"}

\* C1: for one question instance onAnswer is invoked at most once, and a
\* handler that runs while isAnswered is true does not invoke it.
C1_AnswerSubmittedOnce ==
  /\ [](answerCount <= 1)
  /\ [][(isAnswered /\ question'.id = question.id) => answerCount' = answerCount]_vars

\* a submit handler has run again on a question that was already answered
C1_Witness ==
  /\ lastOp \in SubmitHandlers
  /\ calledLocked
  /\ isAnswered
  /\ answerCount = 1

\* C2: the step that changes question.id leaves every per-question prop and
\* state at its initial value, whatever the previous question had left.
C2_ResetOnQuestionChange ==
  [][question'.id # question.id =>
       /\ inputVal' = <<>>
       /\ selectedParts' = <<>>
       /\ showHint' = FALSE
       /\ hintText' = <<>>
       /\ userAnswer' = Null
       /\ isAnswered' = FALSE]_vars

\* the question was changed after an answered question with a shown, cached
\* hint and a non-empty selection, and nothing of it remains
C2_Witness ==
  /\ lastOp = "changeQuestion"
  /\ prev.answered /\ prev.submitted /\ prev.hintShown /\ prev.hintCached
  /\ prev.selected
  /\ inputVal = <<>> /\ selectedParts = <<>> /\ ~showHint /\ hintText = <<>>
  /\ userAnswer = Null /\ ~isAnswered

(* ------------------------------ hint caching --------------------------- *)
\* C3: once the hint has been generated for a question instance, no later
\* step on that instance generates it again, draws a random number or
\* changes hintText.
C3_HintGeneratedOnce ==
  [][(genRuns >= 1 /\ question'.id = question.id) =>
       (genRuns' = genRuns /\ draws' = draws /\ hintText' = hintText)]_vars

(* --------------------------- fragment selection ------------------------ *)
\* the pool button of position i: disabled={isAnswered || isSelected}
PoolButtonEnabled(i) ==
  ~(isAnswered \/ includes(selectedParts, question.rearrangeParts[i]))

\* the number of positions of arr that hold x
Occurrences(arr, x) == Cardinality({i \in 1..Len(arr) : arr[i] = x})

\* C4: fragments are selected by pool position: while the question is
\* unanswered, a fragment text that the pool holds more often than the
\* selection does still has a tappable pool button.
C4_SelectionByPosition ==
  (question.type = REARRANGE /\ ~isAnswered) =>
    \A t \in Range(question.rearrangeParts) :
      Occurrences(selectedParts, t) < Occurrences(question.rearrangeParts, t)
        => \E i \in 1..Len(question.rearrangeParts) :
             question.rearrangeParts[i] = t /\ PoolButtonEnabled(i)

(* ------------------------------ evaluation ----------------------------- *)
\* the two letter cases of one letter
CasePairs == { {"a", "A"}, {"b", "B"}, {"i", "I"} }

\* s and t are the same text up to the letter case of each character
SameIgnoringCase(s, t) ==
  /\ Len(s) = Len(t)
  /\ \A i \in 1..Len(s) : s[i] = t[i] \/ {s[i], t[i]} \in CasePairs

\* a mounted, answered MULTIPLE_CHOICE question holding correctAnswer exactly once
AnsweredMC ==
  /\ lastOp = "mount"
  /\ isAnswered
  /\ userAnswer # Null
  /\ question.type = MULTIPLE_CHOICE
  /\ Occurrences(question.options, question.correctAnswer) = 1

RECURSIVE WordsOf(_)
WordsOf(s) ==
  IF s = <<>> THEN <<>>
  ELSE IF IsSpace(Head(s)) THEN WordsOf(Tail(s))
       ELSE LET n == CHOOSE k \in 1..Len(s) :
                       /\ \A j \in 1..k : ~IsSpace(s[j])
                       /\ (k = Len(s) \/ IsSpace(s[k + 1]))
            IN  <<SubSeq(s, 1, n)>> \o WordsOf(SubSeq(s, n + 1, Len(s)))

\* where fragment i starts in the fragments written one after another with
\* one separator character between neighbours
RECURSIVE OffsetOf(_, _)
OffsetOf(parts, i) ==
  IF i = 1 THEN 0 ELSE OffsetOf(parts, i - 1) + Len(parts[i - 1]) + 1

\* str is the fragments in order with exactly one space between neighbours
IsSpaceJoin(str, parts) ==
  /\ Len(parts) > 0
  /\ Len(str) = OffsetOf(parts, Len(parts)) + Len(parts[Len(parts)])
  /\ \A i \in 1..Len(parts) :
       /\ \A k \in 1..Len(parts[i]) : str[OffsetOf(parts, i) + k] = parts[i][k]
       /\ i < Len(parts) => str[OffsetOf(parts, i) + Len(parts[i]) + 1] = " "

\* handleRearrangeSubmit has just submitted the selection
JustConfirmed ==
  /\ lastOp = "handleRearrangeSubmit"
  /\ ~calledLocked
  /\ selectedParts # <<>>

\* the two tap orders of the "I love cats" question
TapOrdersScored ==
  /\ selectedParts = << <<"I">>, sLove, sCats >> => verdict = "correct"
  /\ selectedParts = << sLove, <<"I">>, sCats >> => verdict = "incorrect"

\* C6 as stated: the confirmed answer is the selection joined with single
\* spaces, and it is scored correct exactly when it and correctAnswer hold the
\* same words (equal after collapsing whitespace runs and trimming).
C6_AsStated ==
  JustConfirmed =>
    /\ isAnswered
    /\ IsSpaceJoin(userAnswer, selectedParts)
    /\ verdict = "correct" <=> WordsOf(userAnswer) = WordsOf(question.correctAnswer)
    /\ question.correctAnswer = sILoveCats => TapOrdersScored

\* C6, amended: ... scored correct exactly when the joined string is not
\* empty and holds the same words as correctAnswer.
C6_RearrangeScoring ==
  JustConfirmed =>
    /\ isAnswered
    /\ IsSpaceJoin(userAnswer, selectedParts)
    /\ verdict = "correct" <=>
         (userAnswer # <<>> /\ WordsOf(userAnswer) = WordsOf(question.correctAnswer))
    /\ question.correctAnswer = sILoveCats => TapOrdersScored

\* fragments carrying their own whitespace were joined and scored correct
C6_Witness ==
  /\ JustConfirmed
  /\ selectedParts = << <<"a", " ">>, <<"\t", "b">> >>
  /\ userAnswer = <<"a", " ", " ", "\t", "b">>
  /\ question.correctAnswer = <<"a", " ", "b">>
  /\ verdict = "correct"

(* --------------------------- the REARRANGE hint ------------------------ *)
SpaceCount(s) == Cardinality({i \in 1..Len(s) : s[i] = " "})

\* the text of s before its k-th space, or all of s when it has fewer spaces
LeadingTokens(s, k) ==
  IF SpaceCount(s) >= k
  THEN LET cut == CHOOSE i \in 1..Len(s) :
                    s[i] = " " /\ SpaceCount(SubSeq(s, 1, i)) = k
       IN  SubSeq(s, 1, cut - 1)
  ELSE s

\* the hint of a REARRANGE question is on display
RearrangeHintShown ==
  /\ lastOp = "toggleHint"
  /\ showHint
  /\ question.type = REARRANGE

C8_UnknownTypeIncorrect ==
  (lastOp = "mount" /\ isAnswered /\ question.type \notin
     {MULTIPLE_CHOICE, FILL_IN_BLANK, REARRANGE}) => verdict = "incorrect"

\* C9: an absent or empty submitted answer is scored incorrect for every
\* type and every correctAnswer, the empty one included.
C9_EmptyAnswerIncorrect ==
  (lastOp = "mount" /\ isAnswered /\ (userAnswer = Null \/ Len(userAnswer) = 0))
    => verdict = "incorrect"

\* an empty answer to an empty correctAnswer was scored incorrect
C9_Witness ==
  /\ lastOp = "mount"
  /\ isAnswered
  /\ userAnswer = <<>>
  /\ question.correctAnswer = <<>>
  /\ verdict = "incorrect"

\* C10: a submitted value that is not among the options of a MULTIPLE_CHOICE
\* question (one that holds correctAnswer exactly once) is scored incorrect,
\* also when it differs from correctAnswer only in letter case.
C10_NonOptionIncorrect ==
  (AnsweredMC /\ ~includes(question.options, userAnswer)) => verdict = "incorrect"

(* ---------------------------- fragment toggling ------------------------ *)
\* after is before with the one element at position i taken out
IsRemovalAt(after, before, i) ==
  /\ Len(after) = Len(before) - 1
  /\ \A j \in 1..(i - 1) : after[j] = before[j]
  /\ \A j \in i..Len(after) : after[j] = before[j + 1]

\* C11: a handlePartClick call on an unanswered question appends a fragment
\* that was not selected at the end, leaving the earlier ones and their order
\* as they were, and takes a selected fragment out, keeping the order of the
\* rest; on an answered question it leaves the selection unchanged.
C11_ToggleSemantics ==
  lastOp = "handlePartClick" =>
    IF calledLocked
    THEN selectedParts = tapped.before
    ELSE IF \E i \in 1..Len(tapped.before) : tapped.before[i] = tapped.part
         THEN /\ \A j \in 1..Len(selectedParts) : selectedParts[j] # tapped.part
              /\ \E i \in 1..Len(tapped.before) :
                   /\ tapped.before[i] = tapped.part
                   /\ IsRemovalAt(selectedParts, tapped.before, i)
         ELSE /\ Len(selectedParts) = Len(tapped.before) + 1
              /\ selectedParts[Len(selectedParts)] = tapped.part
              /\ \A j \in 1..Len(tapped.before) : selectedParts[j] = tapped.before[j]

\* the middle one of three selected fragments was tapped and taken out
C11_Witness ==
  /\ lastOp = "handlePartClick"
  /\ ~calledLocked
  /\ tapped.before = << sLove, <<"I">>, sCats >>
  /\ tapped.part = <<"I">>
  /\ selectedParts = << sLove, sCats >>

(* --------------------------- fill-in submission ------------------------ *)
\* s holds nothing but whitespace (the empty string included)
AllWhitespace(s) == \A i \in 1..Len(s) : IsSpace(s[i])

\* t is s without its leading and trailing whitespace, and is not empty
IsTrimOf(t, s) ==
  /\ Len(t) > 0
  /\ ~IsSpace(t[1])
  /\ ~IsSpace(t[Len(t)])
  /\ Len(t) <= Len(s)
  /\ \E k \in 0..(Len(s) - Len(t)) :
       /\ \A j \in 1..k : IsSpace(s[j])
       /\ \A j \in 1..Len(t) : s[k + j] = t[j]
       /\ \A j \in (k + Len(t) + 1)..Len(s) : IsSpace(s[j])

\* handleInputSubmit has just run on a question that was not answered
JustSubmittedInput ==
  /\ lastOp = "handleInputSubmit"
  /\ ~calledLocked

\* C12: handleInputSubmit submits nothing and does not lock the question when
\* the typed text is empty or whitespace only; otherwise it submits the typed
\* text without its outer whitespace, which is not empty, and that answer is
\* scored correct exactly when it equals the untrimmed correctAnswer up to
\* letter case.
C12_TrimAtSubmit ==
  JustSubmittedInput =>
    IF AllWhitespace(inputVal)
    THEN ~isAnswered /\ userAnswer = Null /\ answerCount = 0 /\ verdict = "none"
    ELSE /\ isAnswered
         /\ answerCount = 1
         /\ IsTrimOf(userAnswer, inputVal)
         /\ verdict = "correct" <=> SameIgnoringCase(userAnswer, question.correctAnswer)

\* the typed text equals the untrimmed correctAnswer, is submitted trimmed and
\* so is scored incorrect
C12_Witness ==
  /\ JustSubmittedInput
  /\ question.correctAnswer = <<" ", "A", "b", " ">>
  /\ inputVal = <<" ", "A", "b", " ">>
  /\ userAnswer = <<"A", "b">>
  /\ verdict = "incorrect"

(* ------------------------ the MULTIPLE_CHOICE hint --------------------- *)
\* the hint of a MULTIPLE_CHOICE question holding correctAnswer exactly once
\* has been generated and is on display
ChoiceHintShown ==
  /\ lastOp = "toggleHint"
  /\ showHint
  /\ genRuns >= 1
  /\ question.type = MULTIPLE_CHOICE
  /\ Occurrences(question.options, question.correctAnswer) = 1

\* the option text between the two fixed pieces of the hint message
NamedOption == SubSeq(hintText, 2, Len(hintText) - 1)

\* C13: the option the hint tells the learner to eliminate is one of the
\* options and is scored incorrect when submitted; when no option differs
\* from correctAnswer the hint is the empty string.
C13_HintAgreesWithEvaluation ==
  ChoiceHintShown =>
    IF \E i \in 1..Len(question.options) : question.options[i] # question.correctAnswer
    THEN /\ Len(hintText) >= 2
         /\ hintText[1] = McHintOpen
         /\ hintText[Len(hintText)] = McHintClose
         /\ includes(question.options, NamedOption)
         /\ FeedbackOf(question, TRUE, NamedOption) = "incorrect"
    ELSE hintText = <<>>

(* ----------------------- the selection as a set ------------------------ *)
\* the sentence of the question whose pool holds the fragment "a" twice
sABA == <<"a", " ", "b", " ", "a">>

\* C14: selectedParts never holds a string twice and holds only texts of the
\* current question's rearrangeParts; what is submitted is that selection
\* joined, so the sentence that needs the fragment "a" twice is never
\* submitted and never scored correct.
C14_SelectionHoldsNoTextTwice ==
  /\ \A i, j \in 1..Len(selectedParts) :
       i # j => selectedParts[i] # selectedParts[j]
  /\ \A i \in 1..Len(selectedParts) :
       \E j \in 1..Len(question.rearrangeParts) :
         selectedParts[i] = question.rearrangeParts[j]
  /\ (question.type = REARRANGE /\ isAnswered)
       => IsSpaceJoin(userAnswer, selectedParts)
  /\ question.correctAnswer = sABA
       => (userAnswer # sABA /\ verdict # "correct")

\* with the pool a, b, a the learner could only confirm "a b"
C14_Witness ==
  /\ question.correctAnswer = sABA
  /\ question.rearrangeParts = << <<"a">>, <<"b">>, <<"a">> >>
  /\ lastOp = "handleRearrangeSubmit"
  /\ isAnswered
  /\ selectedParts = << <<"a">>, <<"b">> >>
  /\ userAnswer = <<"a", " ", "b">>
  /\ verdict = "incorrect"

====
